---------------------------- MODULE Spec2Model ----------------------------
(***************************************************************************)
(* A model of main.py: the lyrics pipeline (download_lyrics, build_corpus, *)
(* calculate_word_stats, as driven by main) and its text functions.        *)
(*                                                                         *)
(* Text is a sequence of Unicode code points, so that regular expressions, *)
(* str.strip, str.lower and the ordering of sorted() are computed as       *)
(* Python computes them.  The filesystem is the one of a POSIX host:       *)
(* write_text stores the text as given, read_text decodes with universal   *)
(* newlines.                                                               *)
(***************************************************************************)
EXTENDS Integers, Sequences, FiniteSets, TLC

\* ------------------------------------------------------------- bounds
\* Longest text handed to a text function.
MaxTextLen == 5
\* Most songs in one adapter response.
MaxSongs == 2
\* Most paths handed to build_corpus when it is called on its own.
MaxFiles == 2

\* --------------------------------------------------------- characters
LF == 10
CR == 13
SPACE == 32
DQUOTE == 34
APOSTROPHE == 39
SLASH == 47
DIGIT_1 == 49
QUESTION == 63
UPPER_B == 66
LBRACKET == 91
RBRACKET == 93
LOWER_a == 97
LOWER_b == 98
E_ACUTE == 233

\* ".txt", the suffix of a song's file (line 210).
TXT_SUFFIX == <<46, 116, 120, 116>>
\* "corpus.txt" (line 228).
CORPUS_NAME == <<99, 111, 114, 112, 117, 115, 46, 116, 120, 116>>
\* "untitled" (line 158).
UNTITLED == <<117, 110, 116, 105, 116, 108, 101, 100>>

\* The characters of the class [\\/:*?"<>|] (line 157).
RESERVED_CHARS == {92, 47, 58, 42, 63, 34, 60, 62, 124}
\* The characters of the class ["'’] (line 151).
QUOTE_CHARS == {34, 39, 8217}
\* The characters str.strip() removes: those for which str.isspace() holds.
WHITESPACE == {9, 10, 11, 12, 13, 28, 29, 30, 31, 32, 133, 160, 5760}
                  \cup (8192..8202) \cup {8232, 8233, 8239, 8287, 12288}
\* The characters \w matches in a str pattern, among the code points below 256:
\* [a-zA-Z0-9_] and every other alphanumeric character.
WORD_CHARS == (48..57) \cup (65..90) \cup {95} \cup (97..122)
                  \cup {170, 178, 179, 181, 185, 186, 188, 189, 190}
                  \cup (192..214) \cup (216..246) \cup (248..255)
\* The characters of the class [a-zA-Z'] (line 244).
TOKEN_CHARS == (65..90) \cup (97..122) \cup {39}

\* ------------------------------------------------------ sequence helpers
\* All texts over an alphabet, up to a length.
Strings(alphabet, n) == UNION {[1..k -> alphabet] : k \in 0..n}

\* "".join(parts)
RECURSIVE Join(_)
Join(parts) ==
    IF parts = <<>> THEN <<>> ELSE Head(parts) \o Join(Tail(parts))

\* str.lower() of one character: ASCII and Latin-1 capitals move by 32, the
\* Kelvin sign becomes k, dotted capital I becomes i and a combining dot.
LowerChar(c) ==
    IF c \in (65..90) \cup (192..214) \cup (216..222) THEN <<c + 32>>
    ELSE IF c = 8490 THEN <<107>>
    ELSE IF c = 304 THEN <<105, 775>>
    ELSE <<c>>

\* text.lower() (line 244)
Lower(text) == Join([i \in 1..Len(text) |-> LowerChar(text[i])])

\* ------------------------------------------------------------ STOPWORDS
STOPWORDS == {
    <<97>>,                                                  \* a
    <<97, 110>>,                                             \* an
    <<116, 104, 101>>,                                       \* the
    <<116, 104, 105, 115>>,                                  \* this
    <<116, 104, 97, 116>>,                                   \* that
    <<116, 104, 101, 115, 101>>,                             \* these
    <<116, 104, 111, 115, 101>>,                             \* those
    <<97, 109>>,                                             \* am
    <<97, 114, 101>>,                                        \* are
    <<98, 101>>,                                             \* be
    <<98, 101, 101, 110>>,                                   \* been
    <<98, 101, 105, 110, 103>>,                              \* being
    <<99, 97, 110>>,                                         \* can
    <<99, 111, 117, 108, 100>>,                              \* could
    <<99, 111, 117, 108, 100, 110, 39, 116>>,                \* couldn't
    <<100, 105, 100>>,                                       \* did
    <<100, 105, 100, 110, 39, 116>>,                         \* didn't
    <<100, 111>>,                                            \* do
    <<100, 111, 101, 115>>,                                  \* does
    <<100, 111, 101, 115, 110, 39, 116>>,                    \* doesn't
    <<100, 111, 110, 39, 116>>,                              \* don't
    <<104, 97, 100>>,                                        \* had
    <<104, 97, 100, 110, 39, 116>>,                          \* hadn't
    <<104, 97, 115>>,                                        \* has
    <<104, 97, 115, 110, 39, 116>>,                          \* hasn't
    <<104, 97, 118, 101>>,                                   \* have
    <<104, 97, 118, 101, 110, 39, 116>>,                     \* haven't
    <<104, 101>>,                                            \* he
    <<104, 101, 114>>,                                       \* her
    <<104, 101, 114, 115>>,                                  \* hers
    <<104, 101, 114, 115, 101, 108, 102>>,                   \* herself
    <<104, 105, 109>>,                                       \* him
    <<104, 105, 109, 115, 101, 108, 102>>,                   \* himself
    <<104, 105, 115>>,                                       \* his
    <<105>>,                                                 \* i
    <<105, 115>>,                                            \* is
    <<105, 115, 110, 39, 116>>,                              \* isn't
    <<105, 116>>,                                            \* it
    <<105, 116, 115>>,                                       \* its
    <<105, 116, 115, 101, 108, 102>>,                        \* itself
    <<109, 97, 121>>,                                        \* may
    <<109, 105, 103, 104, 116>>,                             \* might
    <<109, 101>>,                                            \* me
    <<109, 117, 115, 116>>,                                  \* must
    <<109, 121>>,                                            \* my
    <<109, 121, 115, 101, 108, 102>>,                        \* myself
    <<111, 117, 114>>,                                       \* our
    <<111, 117, 114, 115>>,                                  \* ours
    <<111, 117, 114, 115, 101, 108, 118, 101, 115>>,         \* ourselves
    <<115, 104, 101>>,                                       \* she
    <<116, 104, 101, 105, 114, 115>>,                        \* theirs
    <<116, 104, 101, 109>>,                                  \* them
    <<116, 104, 101, 109, 115, 101, 108, 118, 101, 115>>,    \* themselves
    <<116, 104, 101, 121>>,                                  \* they
    <<119, 101>>,                                            \* we
    <<119, 101, 114, 101>>,                                  \* were
    <<119, 105, 108, 108>>,                                  \* will
    <<119, 111, 110, 39, 116>>,                              \* won't
    <<119, 111, 117, 108, 100>>,                             \* would
    <<121, 111, 117>>,                                       \* you
    <<121, 111, 117, 114>>,                                  \* your
    <<121, 111, 117, 114, 115>>,                             \* yours
    <<121, 111, 117, 114, 115, 101, 108, 102>>,              \* yourself
    <<121, 111, 117, 114, 115, 101, 108, 118, 101, 115>>,    \* yourselves
    <<97, 98, 111, 117, 116>>,                               \* about
    <<97, 98, 111, 118, 101>>,                               \* above
    <<97, 102, 116, 101, 114>>,                              \* after
    <<97, 103, 97, 105, 110>>,                               \* again
    <<97, 103, 97, 105, 110, 115, 116>>,                     \* against
    <<97, 108, 108>>,                                        \* all
    <<97, 108, 115, 111>>,                                   \* also
    <<97, 110, 100>>,                                        \* and
    <<97, 110, 121>>,                                        \* any
    <<97, 115>>,                                             \* as
    <<97, 116>>,                                             \* at
    <<98, 101, 102, 111, 114, 101>>,                         \* before
    <<98, 101, 108, 111, 119>>,                              \* below
    <<98, 101, 116, 119, 101, 101, 110>>,                    \* between
    <<98, 111, 116, 104>>,                                   \* both
    <<98, 117, 116>>,                                        \* but
    <<98, 121>>,                                             \* by
    <<100, 117, 114, 105, 110, 103>>,                        \* during
    <<102, 111, 114>>,                                       \* for
    <<102, 114, 111, 109>>,                                  \* from
    <<102, 117, 114, 116, 104, 101, 114>>,                   \* further
    <<105, 102>>,                                            \* if
    <<105, 110>>,                                            \* in
    <<105, 110, 116, 111>>,                                  \* into
    <<110, 101, 97, 114>>,                                   \* near
    <<110, 111, 114>>,                                       \* nor
    <<111, 102>>,                                            \* of
    <<111, 102, 102>>,                                       \* off
    <<111, 110>>,                                            \* on
    <<111, 114>>,                                            \* or
    <<111, 116, 104, 101, 114>>,                             \* other
    <<111, 118, 101, 114>>,                                  \* over
    <<111, 119, 110>>,                                       \* own
    <<115, 97, 109, 101>>,                                   \* same
    <<115, 111>>,                                            \* so
    <<115, 111, 109, 101>>,                                  \* some
    <<115, 117, 99, 104>>,                                   \* such
    <<116, 104, 97, 110>>,                                   \* than
    <<116, 104, 101, 105, 114>>,                             \* their
    <<116, 104, 101, 110>>,                                  \* then
    <<116, 104, 101, 114, 101>>,                             \* there
    <<116, 111>>,                                            \* to
    <<116, 111, 111>>,                                       \* too
    <<117, 110, 100, 101, 114>>,                             \* under
    <<117, 110, 116, 105, 108>>,                             \* until
    <<117, 112>>,                                            \* up
    <<118, 101, 114, 121>>,                                  \* very
    <<119, 97, 115>>,                                        \* was
    <<119, 104, 97, 116>>,                                   \* what
    <<119, 104, 101, 110>>,                                  \* when
    <<119, 104, 101, 114, 101>>,                             \* where
    <<119, 104, 105, 99, 104>>,                              \* which
    <<119, 104, 105, 108, 101>>,                             \* while
    <<119, 104, 111>>,                                       \* who
    <<119, 104, 111, 109>>,                                  \* whom
    <<119, 104, 121>>,                                       \* why
    <<119, 105, 116, 104>>                                   \* with
    }

\* ------------------------------------------------------ sanitize_lyrics
\* Where the match of \[.*?\] that starts at s[pos] ends, 0 when there is none:
\* the first "]" after pos, provided no line feed lies between ("." matches
\* every character but "\n").
SectionEnd(s, pos) ==
    LET closing == {j \in (pos + 1)..Len(s) : s[j] = RBRACKET}
        first == CHOOSE j \in closing : \A k \in closing : j <= k
    IN  IF s[pos] # LBRACKET \/ closing = {} THEN 0
        ELSE IF \E k \in (pos + 1)..(first - 1) : s[k] = LF THEN 0
        ELSE first

\* Variant: only the first section is removed (count=1).
RECURSIVE RemoveFirstSection(_, _)
RemoveFirstSection(s, pos) ==
    IF pos > Len(s) THEN <<>>
    ELSE IF SectionEnd(s, pos) # 0
         THEN SubSeq(s, SectionEnd(s, pos) + 1, Len(s))
    ELSE <<s[pos]>> \o RemoveFirstSection(s, pos + 1)

\* re.sub(r"\[.*?\]", "", s), scanning from s[pos] (line 149).
RECURSIVE RemoveSections(_, _)
RemoveSections(s, pos) ==
    IF pos > Len(s) THEN <<>>
    ELSE IF SectionEnd(s, pos) # 0 THEN RemoveSections(s, SectionEnd(s, pos) + 1)
    ELSE <<s[pos]>> \o RemoveSections(s, pos + 1)

\* re.sub(r"[\"'’]", "", s) (line 151).
RemoveQuotes(s) == SelectSeq(s, LAMBDA c : c \notin QUOTE_CHARS)

sanitize_lyrics(text) == RemoveQuotes(RemoveSections(text, 1))

\* ---------------------------------------------------- sanitize_filename
\* re.sub(r"[\\/:*?\"<>|]", "", name) (line 157).
RemoveReserved(name) == SelectSeq(name, LAMBDA c : c \notin RESERVED_CHARS)

\* str.strip()
Strip(s) ==
    LET kept == {i \in 1..Len(s) : s[i] \notin WHITESPACE}
        lo == CHOOSE i \in kept : \A k \in kept : i <= k
        hi == CHOOSE i \in kept : \A k \in kept : k <= i
    IN  IF kept = {} THEN <<>> ELSE SubSeq(s, lo, hi)

\* cleaned.strip() or "untitled" (line 158).
StripOrUntitled(cleaned) ==
    IF Strip(cleaned) = <<>> THEN UNTITLED ELSE Strip(cleaned)

\* Variant: trimmed first, reserved characters removed after.
sanitize_filename_strip_first(name) ==
    IF RemoveReserved(Strip(name)) = <<>> THEN UNTITLED
    ELSE RemoveReserved(Strip(name))

sanitize_filename(name) == StripOrUntitled(RemoveReserved(name))

\* ------------------------------------------------- calculate_word_stats
\* \b at offset i of s (between s[i] and s[i+1]): exactly one side is a word
\* character; the outside of the text counts as a non-word character.
IsBoundary(s, i) ==
    (i >= 1 /\ s[i] \in WORD_CHARS) # (i < Len(s) /\ s[i + 1] \in WORD_CHARS)

\* Variant: the pattern without its two \b, [a-zA-Z']+.
TokenEndNoBoundary(s, i) ==
    LET ends == {j \in (i + 1)..Len(s) :
                    \A k \in (i + 1)..j : s[k] \in TOKEN_CHARS}
    IN  IF ends = {} THEN 0
        ELSE CHOOSE j \in ends : \A k \in ends : k <= j

\* Where the match of \b[a-zA-Z']+\b that starts at offset i ends, 0 when there
\* is none: the class is matched greedily and given back one character at a
\* time until \b holds.
TokenEnd(s, i) ==
    LET ends == {j \in (i + 1)..Len(s) :
                    /\ \A k \in (i + 1)..j : s[k] \in TOKEN_CHARS
                    /\ IsBoundary(s, j)}
    IN  IF ~IsBoundary(s, i) \/ ends = {} THEN 0
        ELSE CHOOSE j \in ends : \A k \in ends : k <= j

\* re.findall(r"\b[a-zA-Z']+\b", s), scanning from offset i (line 244).
RECURSIVE FindAll(_, _)
FindAll(s, i) ==
    IF i >= Len(s) THEN <<>>
    ELSE IF TokenEnd(s, i) # 0
         THEN <<SubSeq(s, i + 1, TokenEnd(s, i))>> \o FindAll(s, TokenEnd(s, i))
    ELSE FindAll(s, i + 1)

\* [word for word in words if word not in STOPWORDS] (line 245).
FilterStopwords(words) == SelectSeq(words, LAMBDA w : w \notin STOPWORDS)

\* len(set(filtered_words)) (line 247).
CountUnique(filtered_words) ==
    Cardinality({filtered_words[i] : i \in 1..Len(filtered_words)})

\* unique_words / total_words * 1000, or 0.0 (line 248), as the exact fraction
\* <<numerator, denominator>>.
UniquePerThousand(unique_words, total_words) ==
    IF total_words # 0 THEN <<unique_words * 1000, total_words>> ELSE <<0, 1>>

\* Variant: unique_words counted before the stopwords are dropped.
calculate_word_stats_unfiltered_unique(text) ==
    LET words == FindAll(Lower(text), 0)
        total_words == Len(FilterStopwords(words))
        unique_words == CountUnique(words)
    IN  [total_words |-> total_words,
         unique_words |-> unique_words,
         unique_per_thousand |-> UniquePerThousand(unique_words, total_words)]

calculate_word_stats(text) ==
    LET words == FindAll(Lower(text), 0)
        filtered_words == FilterStopwords(words)
        total_words == Len(filtered_words)
        unique_words == CountUnique(filtered_words)
    IN  [total_words |-> total_words,
         unique_words |-> unique_words,
         unique_per_thousand |-> UniquePerThousand(unique_words, total_words)]

\* ------------------------------------------------------------ filesystem
\* A path below the output directory is <<folder, file name>>; the filesystem
\* is the set of folders that exist and a function from the paths of the
\* files that exist to their contents.

\* a < b for two strings: by code point, a proper prefix first.
StrLess(a, b) ==
    \E i \in 1..(Len(a) + 1) :
        /\ i <= Len(b)
        /\ \A k \in 1..(i - 1) : a[k] = b[k]
        /\ (i = Len(a) + 1 \/ a[i] < b[i])

\* p < q for two paths: pathlib compares the paths part by part.
PathLess(p, q) ==
    StrLess(p[1], q[1]) \/ (p[1] = q[1] /\ StrLess(p[2], q[2]))

\* p placed into a sorted list, after the elements that are not greater.
RECURSIVE Insert(_, _)
Insert(sorted_files, p) ==
    IF sorted_files = <<>> THEN <<p>>
    ELSE IF PathLess(p, Head(sorted_files)) THEN <<p>> \o sorted_files
    ELSE <<Head(sorted_files)>> \o Insert(Tail(sorted_files), p)

\* Variant: the files in the order given.
SortedAsGiven(files) == files

\* sorted(files) (line 229).
RECURSIVE Sorted(_)
Sorted(files) ==
    IF files = <<>> THEN <<>>
    ELSE Insert(Sorted(SubSeq(files, 1, Len(files) - 1)), files[Len(files)])

\* Path.write_text(content) on a POSIX host: the text is stored as given.
WriteText(filesystem, path, content) ==
    [p \in DOMAIN filesystem \cup {path} |->
        IF p = path THEN content ELSE filesystem[p]]

\* Universal newlines, as text-mode reading applies them: "\r\n" and a lone
\* "\r" are read as "\n".
RECURSIVE TranslateNewlines(_, _)
TranslateNewlines(data, pos) ==
    IF pos > Len(data) THEN <<>>
    ELSE IF data[pos] = CR /\ pos < Len(data) /\ data[pos + 1] = LF
         THEN <<LF>> \o TranslateNewlines(data, pos + 2)
    ELSE IF data[pos] = CR THEN <<LF>> \o TranslateNewlines(data, pos + 1)
    ELSE <<data[pos]>> \o TranslateNewlines(data, pos + 1)

\* Path.read_text(): the file's text, decoded with universal newlines.
ReadText(filesystem, path) == TranslateNewlines(filesystem[path], 1)

\* ------------------------------------------------------- download_lyrics
\* What the adapter's search_artist returns: None (found = FALSE), or an
\* artist with a list of songs, each with a title and lyrics that may be
\* absent (has_lyrics = FALSE) or empty.
NoArtist == [found |-> FALSE, songs |-> <<>>]

\* Variant: only absent lyrics are skipped (song.lyrics is None).
HasLyricsUnlessAbsent(song) == song.has_lyrics

\* not song.lyrics (line 205) is false: the song is kept.
HasLyrics(song) == song.has_lyrics /\ song.lyrics # <<>>

\* artist_folder / (sanitize_filename(song.title) + ".txt") (lines 210-211).
SongPath(artist_folder, song) ==
    <<artist_folder, sanitize_filename(song.title) \o TXT_SUFFIX>>

\* iter_songs: raises when search_artist found no artist or no songs.
NoResults(resp) == ~resp.found \/ resp.songs = <<>>

\* The loop of lines 204-214 from the song at index i on: the filesystem and
\* written_paths after it.
RECURSIVE WriteSongs(_, _, _, _, _)
WriteSongs(filesystem, written, artist_folder, songs, i) ==
    IF i > Len(songs) THEN [fs |-> filesystem, written_paths |-> written]
    ELSE IF ~HasLyrics(songs[i])
         THEN WriteSongs(filesystem, written, artist_folder, songs, i + 1)
    ELSE WriteSongs(
            WriteText(filesystem, SongPath(artist_folder, songs[i]),
                      sanitize_lyrics(songs[i].lyrics)),
            Append(written, SongPath(artist_folder, songs[i])),
            artist_folder, songs, i + 1)

\* The error download_lyrics ends in, "none" when it returns written_paths.
DownloadError(resp, written) ==
    IF NoResults(resp) THEN "no_results"
    ELSE IF written = <<>> THEN "no_lyrics_saved"
    ELSE "none"

\* download_lyrics: the folder is made (line 201), then the songs are asked for
\* and written (line 204 on).
download_lyrics(folders, filesystem, artist, resp) ==
    LET artist_folder == sanitize_filename(artist)
        made == folders \cup {artist_folder}
        after == IF NoResults(resp)
                 THEN [fs |-> filesystem, written_paths |-> <<>>]
                 ELSE WriteSongs(filesystem, <<>>, artist_folder, resp.songs, 1)
    IN  [dirs |-> made,
         fs |-> after.fs,
         written_paths |-> after.written_paths,
         error |-> DownloadError(resp, after.written_paths)]

\* ---------------------------------------------------------- build_corpus
\* corpus_parts after the loop of lines 231-233.
CorpusParts(filesystem, sorted_files) ==
    [i \in 1..(2 * Len(sorted_files)) |->
        IF i % 2 = 1 THEN ReadText(filesystem, sorted_files[(i + 1) \div 2])
        ELSE <<LF>>]

build_corpus(filesystem, files, artist_folder) ==
    LET corpus_path == <<artist_folder, CORPUS_NAME>>
        text_read == Join(CorpusParts(filesystem, Sorted(files)))
    IN  [fs |-> WriteText(filesystem, corpus_path, text_read),
         corpus_path |-> corpus_path,
         corpus_text |-> text_read]

\* ----------------------------------------------------------------- state
VARIABLES
    pc,             \* where main is: start, downloaded, failed, built, done
    artist_name,    \* args.artist
    dirs,           \* the folders that exist below the output directory
    fs,             \* the files that exist, path -> content
    dirs0,          \* dirs before the run
    fs0,            \* fs before the run
    response,       \* what the adapter returned to this run
    written_paths,  \* the list download_lyrics built
    error,          \* the error the run ended in, or "none"
    corpus_text,    \* the text build_corpus returned
    stats,          \* what calculate_word_stats returned to main
    fn,             \* the text function last called on its own
    arg,            \* its argument
    result          \* its result

vars == <<pc, artist_name, dirs, fs, dirs0, fs0, response, written_paths,
          error, corpus_text, stats, fn, arg, result>>
runVars == <<pc, artist_name, dirs, fs, dirs0, fs0, response, written_paths,
             error, corpus_text, stats>>
callVars == <<fn, arg, result>>

NoStats == [total_words |-> 0, unique_words |-> 0,
            unique_per_thousand |-> <<0, 1>>]

\* ---------------------------------------------------------------- inputs
ArtistNames == {<<LOWER_a>>, <<QUESTION>>}

Titles == {<<LOWER_a>>, <<LOWER_a, QUESTION>>, <<LOWER_b>>, <<SPACE>>}

LyricsTexts == {<<LOWER_b>>,
                <<LBRACKET, LOWER_a, RBRACKET, UPPER_B, APOSTROPHE, LOWER_b, CR>>}

Songs == [title : Titles, has_lyrics : {TRUE}, lyrics : LyricsTexts \cup {<<>>}]
            \cup [title : Titles, has_lyrics : {FALSE}, lyrics : {<<>>}]

Responses == {NoArtist}
                \cup [found : {TRUE}, songs : Strings(Songs, MaxSongs)]

FileNames == {<<LOWER_a>> \o TXT_SUFFIX, <<LOWER_b>> \o TXT_SUFFIX, CORPUS_NAME}

FileContents == {<<65>>, <<66>>, <<65, CR, LF, 66>>, <<CR>>}

\* The filesystems a run of main may start from, for an artist folder.
InitialFilesystems(artist_folder) ==
    {[dirs |-> {}, fs |-> <<>>],
     [dirs |-> {artist_folder}, fs |-> <<>>]}
    \cup {[dirs |-> {artist_folder},
           fs |-> [p \in {<<artist_folder, n>>} |-> <<65>>]] : n \in FileNames}

LyricsInputs ==
    Strings({LBRACKET, RBRACKET, LF, APOSTROPHE, DQUOTE, LOWER_a}, MaxTextLen)

\* "Lose Yourself"
LoseYourself == <<76, 111, 115, 101, 32, 89, 111, 117, 114, 115, 101, 108, 102>>

FilenameInputs ==
    Strings({QUESTION, SLASH, SPACE, LF, LOWER_a, UPPER_B}, MaxTextLen)
        \cup {LoseYourself}

\* "the cat and the Dog ran, the dog ran fast"
CatAndDog == <<116, 104, 101, 32, 99, 97, 116, 32, 97, 110, 100, 32, 116, 104,
               101, 32, 68, 111, 103, 32, 114, 97, 110, 44, 32, 116, 104, 101,
               32, 100, 111, 103, 32, 114, 97, 110, 32, 102, 97, 115, 116>>

WordInputs ==
    Strings({LOWER_a, LOWER_b, UPPER_B, APOSTROPHE, DIGIT_1, SPACE, E_ACUTE},
            MaxTextLen)
        \cup {CatAndDog}

\* ------------------------------------------------------------------ main
NoCall == fn = "none" /\ arg = <<>> /\ result = <<>>

Init ==
    /\ pc = "start"
    /\ artist_name \in ArtistNames
    /\ \E f \in InitialFilesystems(sanitize_filename(artist_name)) :
          dirs = f.dirs /\ fs = f.fs
    /\ dirs0 = dirs
    /\ fs0 = fs
    /\ response = NoArtist
    /\ written_paths = <<>>
    /\ error = "none"
    /\ corpus_text = <<>>
    /\ stats = NoStats
    /\ NoCall

\* main's call of download_lyrics (lines 290-296), with what the adapter
\* returns; an exception ends main (line 306).
DownloadLyrics ==
    /\ pc = "start"
    /\ \E resp \in Responses :
          LET r == download_lyrics(dirs, fs, artist_name, resp)
          IN  /\ response' = resp
              /\ dirs' = r.dirs
              /\ fs' = r.fs
              /\ written_paths' = r.written_paths
              /\ error' = r.error
              /\ pc' = IF r.error = "none" THEN "downloaded" ELSE "failed"
    /\ UNCHANGED <<artist_name, dirs0, fs0, corpus_text, stats, fn, arg, result>>

\* main's call of build_corpus (lines 298-299).
BuildCorpus ==
    /\ pc = "downloaded"
    /\ LET r == build_corpus(fs, written_paths, sanitize_filename(artist_name))
       IN  /\ fs' = r.fs
           /\ corpus_text' = r.corpus_text
    /\ pc' = "built"
    /\ UNCHANGED <<artist_name, dirs, dirs0, fs0, response, written_paths,
                   error, stats, fn, arg, result>>

\* main's call of calculate_word_stats (line 300).
WordStats ==
    /\ pc = "built"
    /\ stats' = calculate_word_stats(corpus_text)
    /\ pc' = "done"
    /\ UNCHANGED <<artist_name, dirs, fs, dirs0, fs0, response, written_paths,
                   error, corpus_text, fn, arg, result>>

Next == DownloadLyrics \/ BuildCorpus \/ WordStats

Spec == Init /\ [][Next]_vars

\* ------------------------------------------- build_corpus on its own
\* build_corpus called with any list of existing files of a folder.
InitCorpus ==
    /\ pc = "downloaded"
    /\ artist_name = <<LOWER_a>>
    /\ dirs = {sanitize_filename(artist_name)}
    /\ \E names \in SUBSET FileNames :
          fs \in [{<<sanitize_filename(artist_name), n>> : n \in names}
                     -> FileContents]
    /\ dirs0 = dirs
    /\ fs0 = fs
    /\ response = NoArtist
    /\ written_paths \in Strings(DOMAIN fs, MaxFiles)
    /\ error = "none"
    /\ corpus_text = <<>>
    /\ stats = NoStats
    /\ NoCall

NextCorpus == BuildCorpus

SpecCorpus == InitCorpus /\ [][NextCorpus]_vars

\* ------------------------------------------- the text functions on their own
\* One call of one text function, on any text of its inputs.
InitText ==
    /\ pc = "start"
    /\ artist_name = <<LOWER_a>>
    /\ dirs = {}
    /\ fs = <<>>
    /\ dirs0 = dirs
    /\ fs0 = fs
    /\ response = NoArtist
    /\ written_paths = <<>>
    /\ error = "none"
    /\ corpus_text = <<>>
    /\ stats = NoStats
    /\ NoCall

SanitizeLyrics ==
    /\ fn = "none"
    /\ \E t \in LyricsInputs :
          /\ arg' = t
          /\ result' = sanitize_lyrics(t)
    /\ fn' = "sanitize_lyrics"
    /\ UNCHANGED runVars

SanitizeFilename ==
    /\ fn = "none"
    /\ \E t \in FilenameInputs :
          /\ arg' = t
          /\ result' = sanitize_filename(t)
    /\ fn' = "sanitize_filename"
    /\ UNCHANGED runVars

CalculateWordStats ==
    /\ fn = "none"
    /\ \E t \in WordInputs :
          /\ arg' = t
          /\ result' = calculate_word_stats(t)
    /\ fn' = "calculate_word_stats"
    /\ UNCHANGED runVars

NextText == SanitizeLyrics \/ SanitizeFilename \/ CalculateWordStats

SpecText == InitText /\ [][NextText]_vars

\* ================================================================= claims
\* The songs of the response whose lyrics are neither absent nor empty.
SongsWithLyrics ==
    SelectSeq(response.songs, LAMBDA g : g.has_lyrics /\ Len(g.lyrics) > 0)

\* The paths of the files whose content differs from before the run.
ChangedPaths ==
    {p \in DOMAIN fs : p \notin DOMAIN fs0 \/ fs[p] # fs0[p]}

\* C1: after download_lyrics has processed a non-empty list of songs, the
\* songs without lyrics added no path and wrote no file; when every song was
\* skipped the run ended in the "no lyrics saved" error with the files as
\* they were; when some song had lyrics it returned a non-empty list.
C1_SkipsSongsWithoutLyrics ==
    (pc \in {"downloaded", "failed"} /\ response.found /\ response.songs # <<>>)
    => /\ Len(written_paths) = Len(SongsWithLyrics)
       /\ \A p \in ChangedPaths : \E k \in 1..Len(written_paths) : written_paths[k] = p
       /\ SongsWithLyrics = <<>>
            => (pc = "failed" /\ error = "no_lyrics_saved" /\ fs = fs0)
       /\ SongsWithLyrics # <<>>
            => (pc = "downloaded" /\ error = "none" /\ written_paths # <<>>)

\* C1's case: two songs, one with absent and one with empty lyrics, and the
\* run ended in "no lyrics saved".
C1_Witness ==
    /\ pc = "failed"
    /\ error = "no_lyrics_saved"
    /\ Len(response.songs) = 2
    /\ ~response.songs[1].has_lyrics
    /\ response.songs[2].has_lyrics
    /\ written_paths = <<>>

\* C10: a run that ended in the "no results" error left the folders and the
\* files exactly as they were before the call.
C10_NoResultsLeavesFilesystem ==
    (pc = "failed" /\ error = "no_results") => (dirs = dirs0 /\ fs = fs0)

\* No two songs of the response have the same title.
DistinctTitles ==
    \A j, k \in 1..Len(response.songs) :
        response.songs[j].title = response.songs[k].title => j = k

\* C4: after download_lyrics has processed songs (here: songs of pairwise
\* different titles), written_paths holds no path twice, is as long as the
\* list of songs with lyrics, and the file at its k-th path holds the
\* sanitized lyrics of the k-th song with lyrics.
C4_OneFilePerSong ==
    (pc = "downloaded" /\ DistinctTitles)
    => /\ \A j, k \in 1..Len(written_paths) :
              written_paths[j] = written_paths[k] => j = k
       /\ Len(written_paths) = Len(SongsWithLyrics)
       /\ \A k \in 1..Len(written_paths) :
              k <= Len(SongsWithLyrics)
              => fs[written_paths[k]] = sanitize_lyrics(SongsWithLyrics[k].lyrics)

\* The songs of the response in every order.
Reorderings(songs) ==
    {[i \in 1..Len(songs) |-> songs[f[i]]] : f \in Permutations(1..Len(songs))}

\* download_lyrics, then build_corpus, as main runs them.
Pipeline(folders, filesystem, artist, resp) ==
    LET d == download_lyrics(folders, filesystem, artist, resp)
    IN  build_corpus(d.fs, d.written_paths, sanitize_filename(artist))

\* C3: the run that received the same songs (here: songs of pairwise
\* different titles) in any other order, from the same filesystem, ends with
\* the same corpus text and the same files.
C3_OrderIndependent ==
    (pc = "built" /\ DistinctTitles)
    => \A songs \in Reorderings(response.songs) :
          LET other == Pipeline(dirs0, fs0, artist_name,
                                [found |-> TRUE, songs |-> songs])
          IN  other.corpus_text = corpus_text /\ other.fs = fs

\* The files in ascending path order: the arrangement in which no path comes
\* before a smaller one.
Ascending(files) ==
    CHOOSE arranged \in Reorderings(files) :
        \A j, k \in 1..Len(arranged) :
            j < k => ~PathLess(arranged[k], arranged[j])

CorpusPath == <<sanitize_filename(artist_name), CORPUS_NAME>>

\* build_corpus wrote corpus_text to corpus.txt and no other file.
CorpusWritten ==
    /\ DOMAIN fs = DOMAIN fs0 \cup {CorpusPath}
    /\ fs[CorpusPath] = corpus_text
    /\ \A p \in DOMAIN fs0 \ {CorpusPath} : fs[p] = fs0[p]

\* C2, as claimed: build_corpus returns, and writes to corpus.txt, the
\* concatenation in ascending path order of each file's stored content
\* followed by one newline.
C2_StoredContents ==
    pc = "built"
    => /\ corpus_text =
            Join([k \in 1..Len(written_paths) |->
                     fs0[Ascending(written_paths)[k]] \o <<LF>>])
       /\ CorpusWritten

\* C2, amended: build_corpus returns, and writes to corpus.txt, the
\* concatenation in ascending path order of each file's content as text-mode
\* reading decodes it ("\r\n" and "\r" read as "\n") followed by one newline.
C2_DecodedContents ==
    pc = "built"
    => /\ corpus_text =
            Join([k \in 1..Len(written_paths) |->
                     ReadText(fs0, Ascending(written_paths)[k]) \o <<LF>>])
       /\ CorpusWritten

\* C2's case: b.txt -> "B" and a.txt -> "A", given in that order, produce
\* "A\nB\n".
C2_Witness ==
    /\ pc = "built"
    /\ Len(written_paths) = 2
    /\ written_paths[1][2] = <<LOWER_b>> \o TXT_SUFFIX
    /\ written_paths[2][2] = <<LOWER_a>> \o TXT_SUFFIX
    /\ fs0[written_paths[1]] = <<66>>
    /\ fs0[written_paths[2]] = <<65>>
    /\ corpus_text = <<65, LF, 66, LF>>

\* ------------------------------------------------------------ tokens
\* The lower-cased characters a token is made of.
RunChars == (97..122) \cup {APOSTROPHE}

\* The places where a maximal run of letters and apostrophes starts.
RunStarts(s) ==
    {p \in 1..Len(s) : s[p] \in RunChars /\ (p = 1 \/ s[p - 1] \notin RunChars)}

\* Where the maximal run that starts at p ends.
RunEnd(s, p) ==
    CHOOSE q \in p..Len(s) :
        /\ \A k \in p..q : s[k] \in RunChars
        /\ (q = Len(s) \/ s[q + 1] \notin RunChars)

\* The word boundaries in and at the edges of the run that starts at p.
RunBoundaries(s, p) ==
    {i \in (p - 1)..RunEnd(s, p) :
        (i >= 1 /\ s[i] \in WORD_CHARS) # (i < Len(s) /\ s[i + 1] \in WORD_CHARS)}

FirstOf(set) == CHOOSE i \in set : \A k \in set : i <= k
LastOf(set) == CHOOSE i \in set : \A k \in set : k <= i

\* The runs that hold a token: those with two word boundaries.
TokenRuns(s) == {p \in RunStarts(s) : Cardinality(RunBoundaries(s, p)) >= 2}

\* The token of a run: the part between its first and last word boundary.
RunToken(s, p) ==
    SubSeq(s, FirstOf(RunBoundaries(s, p)) + 1, LastOf(RunBoundaries(s, p)))

\* C5, as claimed: the tokens are the maximal runs of ASCII letters and
\* apostrophes of the lower-cased text; total_words counts those outside the
\* stopword set, unique_words the distinct ones among them.
C5_MaximalRuns ==
    fn = "calculate_word_stats"
    => LET s == Lower(arg)
           run(p) == SubSeq(s, p, RunEnd(s, p))
       IN  /\ result.total_words =
                Cardinality({p \in RunStarts(s) : run(p) \notin STOPWORDS})
           /\ result.unique_words =
                Cardinality({run(p) : p \in RunStarts(s)} \ STOPWORDS)

\* C5, amended: each maximal run of ASCII letters and apostrophes of the
\* lower-cased text gives at most one token, the part of the run between its
\* first and its last word boundary, and none when it has fewer than two;
\* total_words counts the tokens outside the stopword set, unique_words the
\* distinct ones among them; the example text gives 6 and 4.
C5_WordBoundaryTokens ==
    fn = "calculate_word_stats"
    => LET s == Lower(arg)
       IN  /\ result.total_words =
                Cardinality({p \in TokenRuns(s) : RunToken(s, p) \notin STOPWORDS})
           /\ result.unique_words =
                Cardinality({RunToken(s, p) : p \in TokenRuns(s)} \ STOPWORDS)
           /\ arg = CatAndDog
                => (result.total_words = 6 /\ result.unique_words = 4)

\* C5's case: "'b' b", where the quoted run counts as the token b, the same
\* word as the bare b.
C5_Witness ==
    /\ fn = "calculate_word_stats"
    /\ arg = <<APOSTROPHE, LOWER_b, APOSTROPHE, SPACE, LOWER_b>>
    /\ result.total_words = 2
    /\ result.unique_words = 1

\* ------------------------------------------------------- sanitizers
\* s[k] lies in a bracketed span of one line: a "[" at or before it with no
\* "]" in between, and a "]" at or after it, with no line feed from the one
\* to the other.
InSection(s, k) ==
    \E p \in 1..k : \E q \in k..Len(s) :
        /\ p < q
        /\ s[p] = LBRACKET
        /\ s[q] = RBRACKET
        /\ \A m \in (p + 1)..(k - 1) : s[m] # RBRACKET
        /\ \A m \in p..q : s[m] # LF

\* The characters of s at the places kept, in order.
RECURSIVE KeepPlaces(_, _, _)
KeepPlaces(s, kept, k) ==
    IF k > Len(s) THEN <<>>
    ELSE (IF k \in kept THEN <<s[k]>> ELSE <<>>) \o KeepPlaces(s, kept, k + 1)

\* C6: the output of sanitize_lyrics never contains a "[" that is followed
\* later by a "]", whatever lies between them, line breaks included.
C6_NoBracketPairLeft ==
    fn = "sanitize_lyrics"
    => ~\E j, k \in 1..Len(result) :
          j < k /\ result[j] = LBRACKET /\ result[k] = RBRACKET

\* What sanitize_lyrics does remove: the spans from a "[" to the first "]"
\* after it with no line feed between them, and the quote characters; every
\* other character is kept, in order, and no "[" of the output is followed on
\* the same line by a "]".
SectionsOfOneLineRemoved ==
    fn = "sanitize_lyrics"
    => /\ result =
            KeepPlaces(arg,
                       {k \in 1..Len(arg) :
                           ~InSection(arg, k) /\ arg[k] \notin QUOTE_CHARS},
                       1)
       /\ ~\E j, k \in 1..Len(result) :
             /\ j < k
             /\ result[j] = LBRACKET
             /\ result[k] = RBRACKET
             /\ \A m \in j..k : result[m] # LF

\* C9: sanitizing a sanitized text changes nothing.
C9_Idempotent ==
    fn = "sanitize_lyrics" => sanitize_lyrics(result) = result

\* C9's case: nested brackets with a quote inside, "[['a]", sanitized to "".
C9_Witness ==
    /\ fn = "sanitize_lyrics"
    /\ arg = <<LBRACKET, LBRACKET, APOSTROPHE, LOWER_a, RBRACKET>>
    /\ result = <<>>

\* C7: sanitize_filename returns a non-empty name with no reserved
\* character and no whitespace at either end; "untitled" when the input
\* holds nothing but reserved characters and whitespace; and the input
\* itself when it is non-empty, holds no reserved character and has no
\* whitespace at either end, as "Lose Yourself".
C7_SafeFilename ==
    fn = "sanitize_filename"
    => /\ result # <<>>
       /\ \A k \in 1..Len(result) : result[k] \notin RESERVED_CHARS
       /\ result[1] \notin WHITESPACE
       /\ result[Len(result)] \notin WHITESPACE
       /\ (\A k \in 1..Len(arg) : arg[k] \in RESERVED_CHARS \cup WHITESPACE)
            => result = UNTITLED
       /\ ( /\ arg # <<>>
            /\ \A k \in 1..Len(arg) : arg[k] \notin RESERVED_CHARS
            /\ arg[1] \notin WHITESPACE
            /\ arg[Len(arg)] \notin WHITESPACE )
            => result = arg
       /\ arg = LoseYourself => result = LoseYourself

\* C7's case: "? /" holds only reserved characters and whitespace and
\* becomes "untitled".
C7_Witness ==
    /\ fn = "sanitize_filename"
    /\ arg = <<QUESTION, SPACE, SLASH>>
    /\ result = UNTITLED

\* C8: unique_words and total_words are not negative, unique_words is at most
\* total_words and is 0 exactly when total_words is; unique_per_thousand is 0
\* when total_words is 0 and otherwise above 0 and at most 1000.
C8_StatsBounds ==
    fn = "calculate_word_stats"
    => LET total == result.total_words
           unique == result.unique_words
           num == result.unique_per_thousand[1]
           den == result.unique_per_thousand[2]
       IN  /\ total >= 0
           /\ unique >= 0
           /\ unique <= total
           /\ (unique = 0) <=> (total = 0)
           /\ den > 0
           /\ total = 0 => num = 0
           /\ total > 0 => (num > 0 /\ num <= 1000 * den)

\* C8's case: "a 1 a", only a stopword and a digit, gives (0, 0, 0.0).
C8_Witness ==
    /\ fn = "calculate_word_stats"
    /\ arg = <<LOWER_a, SPACE, DIGIT_1, SPACE, LOWER_a>>
    /\ result.total_words = 0
    /\ result.unique_words = 0
    /\ result.unique_per_thousand = <<0, 1>>

=============================================================================
